---- MODULE Spec2Model ----
(***************************************************************************)
(* Model of the sillybot Discord bot (cmd/discord-bot/discord_bot.go):     *)
(* the two bounded request queues and their workers, the streaming chat    *)
(* delivery of handlePrompt with its flusher goroutine and splitResponse,  *)
(* and the shutdown in Close.                                              *)
(*                                                                         *)
(* Text is a sequence of characters, each a string.  Offsets returned by   *)
(* the string helpers are Go's 0-based byte offsets; t[i+1] is Go's t[i].  *)
(***************************************************************************)
EXTENDS Integers, Sequences, FiniteSets, TLC

(***************************************************************************)
(* Go's strings package, as splitResponse uses it.                         *)
(***************************************************************************)

\* t[lo:hi] of Go (0-based, hi exclusive).
Slice(t, lo, hi) == SubSeq(t, lo + 1, hi)

\* The concatenation of a sequence of texts.
RECURSIVE Concat(_)
Concat(ts) == IF ts = <<>> THEN <<>> ELSE Head(ts) \o Concat(Tail(ts))

\* strings.HasPrefix(t[i:], p)
HasPrefixAt(t, i, p) ==
    /\ i + Len(p) <= Len(t)
    /\ \A k \in 1..Len(p) : t[i + k] = p[k]

\* strings.HasPrefix(t, p)
HasPrefix(t, p) == HasPrefixAt(t, 0, p)

RECURSIVE IndexFrom(_, _, _)
\* The first offset >= i at which p occurs in t, or -1.
IndexFrom(t, p, i) ==
    IF i + Len(p) > Len(t) THEN -1
    ELSE IF HasPrefixAt(t, i, p) THEN i
    ELSE IndexFrom(t, p, i + 1)

\* strings.Index(t, p)
Index(t, p) == IndexFrom(t, p, 0)

RECURSIVE CountFrom(_, _, _)
\* The number of non-overlapping occurrences of p in t[i:].
CountFrom(t, p, i) ==
    IF i + Len(p) > Len(t) THEN 0
    ELSE IF HasPrefixAt(t, i, p) THEN 1 + CountFrom(t, p, i + Len(p))
    ELSE CountFrom(t, p, i + 1)

\* strings.Count(t, p), p not empty
Count(t, p) == CountFrom(t, p, 0)

\* strings.LastIndexAny(t, chars): the last offset holding one of chars, or -1.
LastIndexAny(t, chars) ==
    LET S == {i \in 0..(Len(t) - 1) : t[i + 1] \in chars}
    IN  IF S = {} THEN -1 ELSE CHOOSE i \in S : \A j \in S : j <= i

\* strings.LastIndexByte(t, c)
LastIndexByte(t, c) == LastIndexAny(t, {c})

(***************************************************************************)
(* regexp.MatchString(pattern, s) for the patterns the model's alphabet    *)
(* can spell: literals, '.', the repetition operators '*' and '?' (each    *)
(* with an optional non-greedy '?'), and '(' which no ')' ever closes.     *)
(***************************************************************************)

\* The characters that are repetition operators in a pattern.
RepOps == {"*", "?"}

RECURSIVE RepeatError(_, _, _)
\* regexp/syntax's parse of the repetition operators of pattern p from offset
\* i on: an operator with nothing to repeat, or stacked on another operator,
\* is a syntax error.  lastRepeat tells whether the previous item was an
\* operator.
RepeatError(p, i, lastRepeat) ==
    IF i >= Len(p) THEN FALSE
    ELSE IF p[i + 1] \in RepOps
         THEN IF lastRepeat \/ i = 0 THEN TRUE
              ELSE LET lazy == IF i + 1 < Len(p) /\ p[i + 2] = "?" THEN 1 ELSE 0
                   IN  RepeatError(p, i + 1 + lazy, TRUE)
    ELSE RepeatError(p, i + 1, FALSE)

\* regexp.Compile(p) returns an error.
CompileError(p) ==
    \/ \E k \in 1..Len(p) : p[k] = "("
    \/ RepeatError(p, 0, FALSE)

\* Whether the one-character pattern atom a matches the character c.
AtomMatches(a, c) == a = "." \/ a = c

\* The offset after the atom at offset i of p and its repetition operator.
AfterItem(p, i) ==
    IF i + 1 < Len(p) /\ p[i + 2] \in RepOps
    THEN IF i + 2 < Len(p) /\ p[i + 3] = "?" THEN i + 3 ELSE i + 2
    ELSE i + 1

RECURSIVE MatchHere(_, _, _, _)
\* Whether p[i:] matches a prefix of s[j:] (p compiles).
MatchHere(p, i, s, j) ==
    IF i >= Len(p) THEN TRUE
    ELSE LET next == AfterItem(p, i)
             op   == IF next > i + 1 THEN p[i + 2] ELSE ""
             one  == j < Len(s) /\ AtomMatches(p[i + 1], s[j + 1])
         IN  CASE op = ""  -> one /\ MatchHere(p, next, s, j + 1)
               [] op = "?" -> \/ MatchHere(p, next, s, j)
                              \/ one /\ MatchHere(p, next, s, j + 1)
               [] op = "*" -> \/ MatchHere(p, next, s, j)
                              \/ one /\ MatchHere(p, i, s, j + 1)

\* regexp.MatchString(p, s) reports a match: p matches somewhere in s.
MatchString(p, s) == \E j \in 0..Len(s) : MatchHere(p, 0, s, j)

(***************************************************************************)
(* splitResponse                                                           *)
(***************************************************************************)

\* The backquote character, which a TLA+ string cannot hold.
BQ == "bq"

\* The triple-backquote fence marker.
Fence == <<BQ, BQ, BQ>>

\* The text the call of regexp.MatchString at line 611 is given as the string
\* to search: the Go raw string `^\d+\. .*`.
EnumPattern == <<"^", "\\", "d", "+", "\\", ".", " ", ".", "*">>

\* The length and newline offset under which nothing is sent.
MinSend == 10

\* What splitResponse gives when it panics instead of returning.
Panicked == -1

\* BeforeFence keeping the text after a single fence marker.
BeforeFenceWhole(t) == t

\* The buffer the rules after the fence rule look at: the text before a single
\* fence marker, else the whole text.
BeforeFence(t) ==
    IF Count(t, Fence) = 1 THEN Slice(t, 0, Index(t, Fence)) ELSE t

\* isEnum as computed before the call of regexp.MatchString.
IsBullet(t) == HasPrefix(t, <<"-", " ">>) \/ HasPrefix(t, <<"*", " ">>)

\* isEnum, when the regexp compiles: the pending text is the pattern and the
\* enumeration regexp is the string searched.
IsEnum(t) == IsBullet(t) \/ MatchString(t, EnumPattern)

\* The search window of the punctuation rule.
PunctWindow(t) ==
    IF Count(t, <<BQ>>) % 2 = 1 THEN Slice(t, 0, LastIndexByte(t, BQ)) ELSE t

\* The first newline of u instead of the last.
FirstNewline(u) == Index(u, <<"\n">>)

\* The newline the newline rule looks at.
LastNewline(u) == LastIndexByte(u, "\n")

\* The rules of splitResponse after the fence rule, on the text u.
SplitPlain(u) ==
    IF u = <<>> THEN 0
    ELSE IF LastNewline(u) >= MinSend THEN LastNewline(u) + 1
    ELSE IF ~IsBullet(u) /\ CompileError(u) THEN Panicked
    ELSE IF IsEnum(u) THEN 0
    ELSE IF Len(u) < MinSend THEN 0
    ELSE IF LastIndexAny(PunctWindow(u), {".", "?", "!"}) = -1 THEN 0
    ELSE LastIndexAny(PunctWindow(u), {".", "?", "!"}) + 1

\* The cut right after the first fence marker.
AfterFirstFence(t) == Index(t, Fence) + 3

\* The cut right after the second fence marker.
AfterSecondFence(t) ==
    LET start == Index(t, Fence) + 3
    IN  Index(Slice(t, start, Len(t)), Fence) + start + 3

\* splitResponse(t): the number of characters to send, 0 for none.
splitResponse(t) ==
    IF Count(t, Fence) >= 2
    THEN AfterSecondFence(t)
    ELSE SplitPlain(BeforeFence(t))

(***************************************************************************)
(* The bot: state                                                          *)
(***************************************************************************)

VARIABLES
    quota,         \* what the environment does in this run (see Init)
    dgOpen,        \* the Discord session delivers events (until dg.Close)
    msgSeq,        \* the number of message events delivered so far
    intSeq,        \* the number of image interactions delivered so far
    msgHandlers,   \* onMessageCreate calls that built req and are at the select
    intHandlers,   \* onImage calls: [req, pc], pc "select" or "ack"
    chat,          \* d.chat, the buffer of the channel
    image,         \* d.image, the buffer of the channel
    wg,            \* d.wg, the counter of the WaitGroup
    closePc,       \* where Close is: "idle", "chat", "image", "wait", "returned"
    crashed,       \* a goroutine panicked: the process is gone
    chatPc,        \* chatRoutine: "recv", "handle", "done"
    chatReq,       \* the request chatRoutine handles
    imagePc,       \* imageRoutine: "recv", "prompt", "labels", "gen", "encode", "done"
    imageReq,      \* the request imageRoutine handles
    content,       \* handleImage's status text, one element per line
    hpPc,          \* handlePrompt: "idle", "stream" (in PromptStreaming), "wait" (wg.Wait)
    hpErr,         \* PromptStreaming returned an error
    produced,      \* the number of words PromptStreaming sent on this stream
    words,         \* the buffer of the channel words
    wordsClosed,   \* close(words) was called
    flPc,          \* the flusher goroutine: "off", "run", "done"
    text,          \* the flusher's text
    pending,       \* the flusher's pending
    replyToID,     \* the flusher's replyToID
    mem,           \* d.mem: the messages of each author's conversation
    sent,          \* the messages handlePrompt sent for its request, in order
    edits,         \* the InteractionResponseEdit calls of handleImage, in order
    acked,         \* the interactions onImage acknowledged (deferred response)
    chatAdmitted,  \* the ids of the chat requests put on d.chat, in order
    chatTaken,     \* the ids of the chat requests chatRoutine took, in order
    chatRejected,  \* the ids of the chat requests answered "too many pending"
    chatOwner,     \* the id of the chat request of the latest delivery
    chatFinished,  \* the ids of the chat requests handlePrompt returned from
    chatDue,       \* the ids admitted when Close put its value on d.chat
    imageAdmitted, \* the same for image requests
    imageTaken,
    imageRejected,
    imageOwner,
    imageFinished,
    imageDue

\* The image generation session (imagegen.New, Session.Close, Session.GenImage)
\* and its environment: the caller's context and the sidecar process.
VARIABLES
    igOpts,        \* New's opts: [remote, model]
    igPc,          \* New: "off" (not called), "new", "probe", "select", "returned"
    igRet,         \* what New returned: "none", "session" or the kind of error
    igSession,     \* the Session New built: [baseURL, done, cancel, steps]
    igCtx,         \* ctx is cancelled
    igProc,        \* the sidecar process: "none", "running", "exited"
    igTermReq,     \* the terminate handle was invoked
    igDone,        \* the completion signal: the values sent and not yet received
    igProbes,      \* the number of readiness probes New made
    igReady,       \* a readiness probe succeeded
    igClosePc,     \* Session.Close: "idle", "wait", "returned"
    igCloseRet,    \* what Session.Close returned
    igGens,        \* the number of GenImage calls made on the session
    igGenRet       \* what the GenImage calls returned, in order

igVars == <<igOpts, igPc, igRet, igSession, igCtx, igProc, igTermReq, igDone,
            igProbes, igReady, igClosePc, igCloseRet, igGens, igGenRet>>

\* One tick of the flusher taken by itself: the call of splitResponse on a
\* pending text and the cut of pending it makes.
VARIABLES
    srPc,          \* the tick: "off", "call", "returned", "panicked"
    srIn,          \* pending when the tick fires
    srOut,         \* what splitResponse returned
    srChunk,       \* the content of the message the tick sent, pending[:i]
    srRest         \* pending after the tick, pending[i:]

srVars == <<srPc, srIn, srOut, srChunk, srRest>>

queueVars  == <<chat, image, wg, closePc, dgOpen, crashed, quota>>
eventVars  == <<msgSeq, intSeq, msgHandlers, intHandlers>>
chatVars   == <<chatPc, chatReq, hpPc, hpErr, produced, words, wordsClosed,
                flPc, text, pending, replyToID, mem, sent>>
imageVars  == <<imagePc, imageReq, content, edits, acked>>
chatGhost  == <<chatAdmitted, chatTaken, chatRejected, chatOwner,
                chatFinished, chatDue>>
imageGhost == <<imageAdmitted, imageTaken, imageRejected, imageOwner,
                imageFinished, imageDue>>
vars == <<queueVars, eventVars, chatVars, imageVars, chatGhost, imageGhost,
          igVars, srVars>>

(***************************************************************************)
(* Program constants and requests                                          *)
(***************************************************************************)

\* make(chan msgReq, 5)
ChatCap == 5

\* make(chan intReq, 3)
ImageCap == 3

\* make(chan string, 10)
WordsCap == 10

\* d.wg.Add(2)
Workers == 2

\* The empty Go string, the zero value of every string field.
Empty == <<>>

\* The id of Discord message k (m.ID), and of the message the bot's n-th send
\* of a stream produced (msg.ID).
MsgID(k) == <<"m", k>>
BotMsgID(n) == <<"b", n>>

\* The *discordgo.Interaction of interaction k; Empty is the nil pointer.
IntPtr(k) == <<"i", k>>

\* msgReq{} and intReq{}: what Close puts on the channels.
ZeroMsgReq ==
    [msg |-> Empty, authorID |-> Empty, channelID |-> Empty, guildID |-> Empty,
     replyToID |-> Empty]
ZeroIntReq ==
    [description |-> Empty, imagePrompt |-> Empty, labelsContent |-> Empty,
     cmdName |-> Empty, int |-> Empty]

\* The users that write to the bot, and the one channel they write in.
Authors == {<<"u", "1">>}
Channel == <<"c">>

\* sillybot.Message
Message(role, c) == [role |-> role, content |-> c]

\* CanSend with the capacity off by one.
CanSendOneMore(q, cap) == Len(q) <= cap

\* A send on a buffered channel of capacity cap proceeds without blocking.
CanSend(q, cap) == Len(q) < cap

\* Dequeue taking the newest item.
DequeueNewest(q) == [item |-> q[Len(q)], rest |-> SubSeq(q, 1, Len(q) - 1)]

\* A receive from a channel: the item received and what stays buffered.
Dequeue(q) == [item |-> Head(q), rest |-> Tail(q)]

\* ChatAtRange had chatRoutine started handlePrompt with a go statement.
ChatAtRangeGo == chatPc # "done"

\* chatRoutine and imageRoutine are at the receive of their range loop: the
\* call of handlePrompt or handleImage of the previous turn has returned.
ChatAtRange == chatPc = "recv"
ImageAtRange == imagePc = "recv"

\* IsChatPoison testing the guild, which is empty for a direct message.
IsChatPoisonGuild(req) == req.guildID = Empty

\* chatRoutine's and imageRoutine's test for the value that ends them.
IsChatPoison(req) == req.authorID = Empty
IsImagePoison(req) == req.int = Empty

(***************************************************************************)
(* Bounds of the model                                                     *)
(***************************************************************************)

\* The events of one kind delivered beyond the capacity of the kind's queue,
\* in the runs that fill a queue.
Overflow == 1

\* The events of each kind, and the words of a stream, in the runs with both
\* kinds of requests.
BothEvents == 1
BothWords == 1

\* The handler calls of one kind that are between building req and the select.
MaxHandlers == 1

\* The message events in the runs that look at the order of the requests.
OrderEvents == 3

\* The message events, and the words of a stream, in the runs that exercise
\* the flusher.
ChunkEvents == 1
ChunkWords == 3

\* The message events, and the words of a stream, in the runs with the
\* /forget command.
ForgetEvents == 1
ForgetWords == 1

\* The words of a pending text of the tick taken by itself.
SplitWords == 4

(***************************************************************************)
(* onMessageCreate and onImage                                             *)
(***************************************************************************)

\* onMessageCreate up to the select: Discord delivers message msgSeq + 1, a
\* message of a user that addresses the bot, and the handler builds req.
MessageCreate ==
    /\ ~crashed /\ dgOpen
    /\ msgSeq < quota.chat
    /\ Cardinality(msgHandlers) < MaxHandlers
    /\ \E a \in Authors, g \in quota.guilds, m \in quota.msgs :
         msgHandlers' = msgHandlers \cup
             {[msg |-> m, authorID |-> a, channelID |-> Channel, guildID |-> g,
               replyToID |-> MsgID(msgSeq + 1)]}
    /\ msgSeq' = msgSeq + 1
    /\ UNCHANGED igVars
    /\ UNCHANGED srVars
    /\ UNCHANGED <<queueVars, intSeq, intHandlers, chatVars, imageVars,
                   chatGhost, imageGhost>>

\* The select of onMessageCreate: the send on d.chat, or the default branch
\* that answers "too many pending chat requests".
MessageEnqueue ==
    /\ ~crashed
    /\ \E req \in msgHandlers :
         /\ msgHandlers' = msgHandlers \ {req}
         /\ IF CanSend(chat, ChatCap)
            THEN /\ chat' = Append(chat, req)
                 /\ chatAdmitted' = Append(chatAdmitted, req.replyToID)
                 /\ UNCHANGED chatRejected
            ELSE /\ chatRejected' = chatRejected \cup {req.replyToID}
                 /\ UNCHANGED <<chat, chatAdmitted>>
    /\ UNCHANGED igVars
    /\ UNCHANGED srVars
    /\ UNCHANGED <<image, wg, closePc, dgOpen, crashed, quota, msgSeq, intSeq,
                   intHandlers, chatVars, imageVars, chatTaken, chatOwner,
                   chatFinished, chatDue, imageGhost>>

\* The fields of the request each command's options give.
IntReq(cmd, k) ==
    [description   |-> IF cmd \in {"meme_auto", "meme_labels_auto", "image_auto"}
                       THEN <<"d">> ELSE Empty,
     imagePrompt   |-> IF cmd \in {"meme_manual", "image_manual"}
                       THEN <<"p">> ELSE Empty,
     labelsContent |-> IF cmd = "meme_manual" THEN <<"l">> ELSE Empty,
     cmdName       |-> cmd,
     int           |-> IntPtr(k)]

\* onImage up to the select: Discord delivers interaction intSeq + 1 and the
\* handler builds req.
ImageInteraction ==
    /\ ~crashed /\ dgOpen
    /\ intSeq < quota.image
    /\ Cardinality(intHandlers) < MaxHandlers
    /\ \E cmd \in quota.cmds :
         intHandlers' = intHandlers \cup
             {[req |-> IntReq(cmd, intSeq + 1), pc |-> "select"]}
    /\ intSeq' = intSeq + 1
    /\ UNCHANGED igVars
    /\ UNCHANGED srVars
    /\ UNCHANGED <<queueVars, msgSeq, msgHandlers, chatVars, imageVars,
                   chatGhost, imageGhost>>

\* The select of onImage: the send on d.image, or the default branch that
\* answers "too many pending image requests" and returns.
ImageEnqueue ==
    /\ ~crashed
    /\ \E h \in intHandlers :
         /\ h.pc = "select"
         /\ IF CanSend(image, ImageCap)
            THEN /\ image' = Append(image, h.req)
                 /\ imageAdmitted' = Append(imageAdmitted, h.req.int)
                 /\ intHandlers' = (intHandlers \ {h}) \cup
                                       {[req |-> h.req, pc |-> "ack"]}
                 /\ UNCHANGED imageRejected
            ELSE /\ imageRejected' = imageRejected \cup {h.req.int}
                 /\ intHandlers' = intHandlers \ {h}
                 /\ UNCHANGED <<image, imageAdmitted>>
    /\ UNCHANGED igVars
    /\ UNCHANGED srVars
    /\ UNCHANGED <<chat, wg, closePc, dgOpen, crashed, quota, msgSeq, intSeq,
                   msgHandlers, chatVars, imageVars, chatGhost, imageTaken,
                   imageOwner, imageFinished, imageDue>>

\* The deferred response onImage sends after the request is on the queue.
ImageAck ==
    /\ ~crashed
    /\ \E h \in intHandlers :
         /\ h.pc = "ack"
         /\ acked' = acked \cup {h.req.int}
         /\ intHandlers' = intHandlers \ {h}
    /\ UNCHANGED igVars
    /\ UNCHANGED srVars
    /\ UNCHANGED <<queueVars, msgSeq, intSeq, msgHandlers, chatVars, imagePc,
                   imageReq, content, edits, chatGhost, imageGhost>>

\* c.Messages after onForget: the system prompt alone.
Forgotten == <<Message("system", <<"s">>)>>

\* onForget, in the goroutine of its event: d.mem.Get for the author and the
\* channel of the command, and c.Messages reset to the system prompt.  It
\* takes no lock and does not ask whether a request of the pair is handled.
OnForget ==
    /\ ~crashed /\ dgOpen
    /\ quota.forget
    /\ \E a \in Authors : mem' = [mem EXCEPT ![a] = Forgotten]
    /\ UNCHANGED igVars
    /\ UNCHANGED srVars
    /\ UNCHANGED <<queueVars, eventVars, chatPc, chatReq, hpPc, hpErr,
                   produced, words, wordsClosed, flPc, text, pending,
                   replyToID, sent, imageVars, chatGhost, imageGhost>>

(***************************************************************************)
(* chatRoutine and handlePrompt                                            *)
(***************************************************************************)

\* c.Messages after handlePrompt's first lines: the system prompt when the
\* conversation is new, then the user's message.
WithUserTurn(msgs, req) ==
    Append(IF Len(msgs) = 0 THEN <<Message("system", <<"s">>)>> ELSE msgs,
           Message("user", req.msg))

\* One turn of chatRoutine's loop: the receive from d.chat, then either the
\* return on the poison value or the start of handlePrompt, up to the call of
\* PromptStreaming with the flusher goroutine started.
ChatRecv ==
    /\ ~crashed
    /\ ChatAtRange
    /\ chat # <<>>
    /\ chat' = Dequeue(chat).rest
    /\ LET req == Dequeue(chat).item
       IN  IF IsChatPoison(req)
           THEN /\ wg' = wg - 1
                /\ chatPc' = "done"
                /\ UNCHANGED <<chatReq, hpPc, hpErr, produced, words,
                               wordsClosed, flPc, text, pending, replyToID,
                               mem, sent, chatTaken>>
           ELSE /\ chatPc' = "handle"
                /\ chatReq' = req
                /\ chatTaken' = Append(chatTaken, req.replyToID)
                /\ mem' = [mem EXCEPT ![req.authorID] = WithUserTurn(@, req)]
                /\ words' = <<>>
                /\ wordsClosed' = FALSE
                /\ produced' = 0
                /\ hpErr' = FALSE
                /\ hpPc' = "stream"
                /\ flPc' = "run"
                /\ text' = Empty
                /\ pending' = Empty
                /\ replyToID' = req.replyToID
                /\ sent' = <<>>
                /\ UNCHANGED wg
    /\ UNCHANGED igVars
    /\ UNCHANGED srVars
    /\ UNCHANGED <<image, closePc, dgOpen, crashed, quota, eventVars,
                   imageVars, chatAdmitted, chatRejected, chatOwner,
                   chatFinished, chatDue, imageGhost>>

\* PromptStreaming sends the next word of the LLM's stream on words.
PromptStreamingWord ==
    /\ ~crashed
    /\ hpPc = "stream"
    /\ produced < Len(quota.stream)
    /\ CanSend(words, WordsCap)
    /\ words' = Append(words, quota.stream[produced + 1])
    /\ produced' = produced + 1
    /\ UNCHANGED igVars
    /\ UNCHANGED srVars
    /\ UNCHANGED <<queueVars, eventVars, chatPc, chatReq, hpPc, hpErr,
                   wordsClosed, flPc, text, pending, replyToID, mem, sent,
                   imageVars, chatGhost, imageGhost>>

\* PromptStreaming returns, with an error or without, and handlePrompt closes
\* words and waits for the flusher.
PromptStreamingReturn ==
    /\ ~crashed
    /\ hpPc = "stream"
    /\ \E err \in BOOLEAN : hpErr' = err
    /\ wordsClosed' = TRUE
    /\ hpPc' = "wait"
    /\ UNCHANGED igVars
    /\ UNCHANGED srVars
    /\ UNCHANGED <<queueVars, eventVars, chatPc, chatReq, produced, words,
                   flPc, text, pending, replyToID, mem, sent, imageVars,
                   chatGhost, imageGhost>>

\* A message handlePrompt or its flusher sends for the request it handles.
Post(kind, c, ref, ok) ==
    /\ sent' = Append(sent, [kind |-> kind, content |-> c, ref |-> ref,
                             ok |-> ok, id |-> BotMsgID(Len(sent) + 1)])
    /\ chatOwner' = chatReq.replyToID

\* MustFlush asking splitResponse whether there is something to send.
MustFlushIfSplits(p) == splitResponse(p) > 0

\* The closed branch of the flusher sends pending when it is not empty.
MustFlush(p) == p # Empty

\* The flusher's select takes a word from words.
FlusherWord ==
    /\ ~crashed
    /\ flPc = "run"
    /\ words # <<>>
    /\ pending' = pending \o Head(words)
    /\ words' = Tail(words)
    /\ UNCHANGED igVars
    /\ UNCHANGED srVars
    /\ UNCHANGED <<queueVars, eventVars, chatPc, chatReq, hpPc, hpErr,
                   produced, wordsClosed, flPc, text, replyToID, mem, sent,
                   imageVars, chatGhost, imageGhost>>

\* The flusher's select finds words closed and drained: the forced flush of
\* pending, the assistant's turn in the history, and the end of the goroutine.
FlusherClosed ==
    /\ ~crashed
    /\ flPc = "run"
    /\ words = <<>> /\ wordsClosed
    /\ \E ok \in BOOLEAN :
         IF MustFlush(pending)
         THEN /\ text' = text \o pending
              /\ Post("final", pending, replyToID, ok)
         ELSE UNCHANGED <<text, sent, chatOwner>>
    /\ mem' = [mem EXCEPT ![chatReq.authorID] =
                   Append(@, Message("assistant", text'))]
    /\ flPc' = "done"
    /\ UNCHANGED igVars
    /\ UNCHANGED srVars
    /\ UNCHANGED <<queueVars, eventVars, chatPc, chatReq, hpPc, hpErr,
                   produced, words, wordsClosed, pending, replyToID,
                   imageVars, chatAdmitted, chatTaken, chatRejected,
                   chatFinished, chatDue, imageGhost>>

\* The flusher replying to the user's message with every chunk.
KeepAnchor(ok, id, old) == old

\* The flusher moving on to the id of a message that was not produced.
NextAnchorAlways(ok, id, old) == id

\* replyToID after a chunk was sent: msg.ID when the send succeeded, else
\* unchanged.
NextAnchor(ok, id, old) == IF ok THEN id ELSE old

\* The flusher's select takes a tick: splitResponse decides what to send.
FlusherTick ==
    /\ ~crashed
    /\ flPc = "run"
    /\ LET i == splitResponse(pending)
       IN  IF i = Panicked
           THEN /\ crashed' = TRUE
                /\ UNCHANGED <<text, pending, replyToID, sent, chatOwner>>
           ELSE IF i = 0
           THEN UNCHANGED <<crashed, text, pending, replyToID, sent, chatOwner>>
           ELSE \E ok \in BOOLEAN :
                  /\ Post("chunk", Slice(pending, 0, i), replyToID, ok)
                  /\ text' = text \o Slice(pending, 0, i)
                  /\ pending' = Slice(pending, i, Len(pending))
                  /\ replyToID' = NextAnchor(ok, BotMsgID(Len(sent) + 1),
                                             replyToID)
                  /\ UNCHANGED crashed
    /\ UNCHANGED igVars
    /\ UNCHANGED srVars
    /\ UNCHANGED <<chat, image, wg, closePc, dgOpen, quota, eventVars,
                   chatPc, chatReq, hpPc, hpErr, produced, words, wordsClosed,
                   flPc, mem, imageVars, chatAdmitted, chatTaken,
                   chatRejected, chatFinished, chatDue, imageGhost>>

\* handlePrompt going on while its flusher still runs.
FlusherDoneEarly == flPc \in {"run", "done"}

\* handlePrompt's wg.Wait() returns: the flusher called Done.
FlusherDone == flPc = "done"

\* wg.Wait returns in handlePrompt: the failure message when PromptStreaming
\* failed, and the return to chatRoutine's loop, where the variables of
\* handlePrompt and of its flusher are gone.
HandlePromptReturn ==
    /\ ~crashed
    /\ hpPc = "wait"
    /\ FlusherDone
    /\ IF hpErr
       THEN \E ok \in BOOLEAN : Post("fail", <<"F">>, Empty, ok)
       ELSE UNCHANGED <<sent, chatOwner>>
    /\ hpPc' = "idle"
    /\ flPc' = "off"
    /\ chatPc' = "recv"
    /\ chatReq' = ZeroMsgReq
    /\ hpErr' = FALSE /\ produced' = 0 /\ wordsClosed' = FALSE
    /\ text' = Empty /\ pending' = Empty /\ replyToID' = Empty
    /\ chatFinished' = chatFinished \cup {chatReq.replyToID}
    /\ UNCHANGED igVars
    /\ UNCHANGED srVars
    /\ UNCHANGED <<queueVars, eventVars, words, mem, imageVars, chatAdmitted,
                   chatTaken, chatRejected, chatDue, imageGhost>>

(***************************************************************************)
(* imageRoutine and handleImage                                            *)
(***************************************************************************)

\* An InteractionResponseEdit of handleImage, with the image attached or not.
Edit(c, file, ok) ==
    /\ edits' = Append(edits, [int |-> imageReq.int, content |-> c,
                               file |-> file, ok |-> ok])
    /\ imageOwner' = imageReq.int

\* handleImage returns to imageRoutine's loop: its variables are gone.
ImageReturn ==
    /\ imagePc' = "recv"
    /\ imageReq' = ZeroIntReq
    /\ content' = <<>>
    /\ imageFinished' = imageFinished \cup {imageReq.int}

\* One turn of imageRoutine's loop: the receive from d.image, then either
\* the return on the poison value or the start of handleImage, up to the
\* description line of content.
ImageRecv ==
    /\ ~crashed
    /\ ImageAtRange
    /\ image # <<>>
    /\ image' = Dequeue(image).rest
    /\ LET req == Dequeue(image).item
       IN  IF IsImagePoison(req)
           THEN /\ wg' = wg - 1
                /\ imagePc' = "done"
                /\ UNCHANGED <<imageReq, content, edits, imageTaken>>
           ELSE /\ imagePc' = "prompt"
                /\ imageReq' = req
                /\ imageTaken' = Append(imageTaken, req.int)
                /\ content' = IF req.description # Empty
                              THEN <<"Description">> ELSE <<>>
                /\ edits' = <<>>
                /\ UNCHANGED wg
    /\ UNCHANGED igVars
    /\ UNCHANGED srVars
    /\ UNCHANGED <<chat, closePc, dgOpen, crashed, quota, eventVars, chatVars,
                   acked, chatGhost, imageAdmitted, imageRejected,
                   imageOwner, imageFinished, imageDue>>

\* handleImage, the image prompt: the LLM rewrites the description for the
\* _auto commands, and the prompt line is added when there is a prompt.
ImagePrompt ==
    /\ ~crashed
    /\ imagePc = "prompt"
    /\ \E ok \in BOOLEAN :
         LET auto   == imageReq.cmdName \in {"meme_auto", "image_auto"}
             prompt == IF auto /\ ok THEN <<"r">> ELSE imageReq.imagePrompt
             c1     == IF auto /\ ~ok THEN Append(content, "LLM Error")
                       ELSE content
         IN  /\ imageReq' = [imageReq EXCEPT !.imagePrompt = prompt]
             /\ content' = IF prompt # Empty THEN Append(c1, "Image prompt")
                           ELSE c1
    /\ imagePc' = "labels"
    /\ UNCHANGED igVars
    /\ UNCHANGED srVars
    /\ UNCHANGED <<queueVars, eventVars, chatVars, edits, acked, chatGhost,
                   imageGhost>>

\* handleImage, the labels: the LLM writes them for meme_auto and
\* meme_labels_auto; meme_labels_auto ends here with its edit.
ImageLabels ==
    /\ ~crashed
    /\ imagePc = "labels"
    /\ \E ok \in BOOLEAN, sendOk \in BOOLEAN :
         LET auto   == imageReq.cmdName \in {"meme_auto", "meme_labels_auto"}
             labels == IF auto /\ ok THEN <<"m">> ELSE imageReq.labelsContent
             c1     == IF auto /\ ~ok THEN Append(content, "LLM Error")
                       ELSE content
         IN  IF imageReq.cmdName = "meme_labels_auto"
             THEN /\ Edit(Append(c1, "Labels"), FALSE, sendOk)
                  /\ ImageReturn
             ELSE /\ imageReq' = [imageReq EXCEPT !.labelsContent = labels]
                  /\ content' = IF labels # Empty THEN Append(c1, "Labels")
                                ELSE c1
                  /\ imagePc' = "gen"
                  /\ UNCHANGED <<edits, imageOwner, imageFinished>>
    /\ UNCHANGED igVars
    /\ UNCHANGED srVars
    /\ UNCHANGED <<queueVars, eventVars, chatVars, acked, chatGhost,
                   imageAdmitted, imageTaken, imageRejected, imageDue>>

\* handleImage, d.ig.GenImage: on an error the edit with the error line.
ImageGen ==
    /\ ~crashed
    /\ imagePc = "gen"
    /\ \E ok \in BOOLEAN, sendOk \in BOOLEAN :
         IF ok
         THEN /\ imagePc' = "encode"
              /\ UNCHANGED <<imageReq, content, edits, imageOwner,
                             imageFinished>>
         ELSE /\ Edit(Append(content, "ImageGen Error"), FALSE, sendOk)
              /\ ImageReturn
    /\ UNCHANGED igVars
    /\ UNCHANGED srVars
    /\ UNCHANGED <<queueVars, eventVars, chatVars, acked, chatGhost,
                   imageAdmitted, imageTaken, imageRejected, imageDue>>

\* handleImage, png.Encode: on an error the return, else the edit with the
\* image.
ImageEncode ==
    /\ ~crashed
    /\ imagePc = "encode"
    /\ \E ok \in BOOLEAN, sendOk \in BOOLEAN :
         IF ok
         THEN Edit(content, TRUE, sendOk)
         ELSE UNCHANGED <<edits, imageOwner>>
    /\ ImageReturn
    /\ UNCHANGED igVars
    /\ UNCHANGED srVars
    /\ UNCHANGED <<queueVars, eventVars, chatVars, acked, chatGhost,
                   imageAdmitted, imageTaken, imageRejected, imageDue>>

(***************************************************************************)
(* Close                                                                   *)
(***************************************************************************)

\* Close is called, in the runs where the process is told to stop:
\* d.dg.Close() ends the delivery of events.
CloseSession ==
    /\ ~crashed
    /\ closePc = "idle"
    /\ quota.closes > 0
    /\ dgOpen' = FALSE
    /\ closePc' = "chat"
    /\ UNCHANGED igVars
    /\ UNCHANGED srVars
    /\ UNCHANGED <<chat, image, wg, crashed, quota, eventVars, chatVars, imageVars,
                   chatGhost, imageGhost>>

\* d.chat <- msgReq{}: blocks while the buffer is full.
ClosePoisonChat ==
    /\ ~crashed
    /\ closePc = "chat"
    /\ CanSend(chat, ChatCap)
    /\ chat' = Append(chat, ZeroMsgReq)
    /\ closePc' = "image"
    /\ chatDue' = {chatAdmitted[k] : k \in 1..Len(chatAdmitted)}
    /\ UNCHANGED igVars
    /\ UNCHANGED srVars
    /\ UNCHANGED <<image, wg, dgOpen, crashed, quota, eventVars, chatVars,
                   imageVars, chatAdmitted, chatTaken, chatRejected,
                   chatOwner, chatFinished, imageGhost>>

\* d.image <- intReq{}: blocks while the buffer is full.
ClosePoisonImage ==
    /\ ~crashed
    /\ closePc = "image"
    /\ CanSend(image, ImageCap)
    /\ image' = Append(image, ZeroIntReq)
    /\ closePc' = "wait"
    /\ imageDue' = {imageAdmitted[k] : k \in 1..Len(imageAdmitted)}
    /\ UNCHANGED igVars
    /\ UNCHANGED srVars
    /\ UNCHANGED <<chat, wg, dgOpen, crashed, quota, eventVars, chatVars,
                   imageVars, chatGhost, imageAdmitted, imageTaken,
                   imageRejected, imageOwner, imageFinished>>

\* WaitDone returning after the first Done.
WaitDoneEarly == wg < Workers

\* d.wg.Wait() returns: every worker called Done.
WaitDone == wg = 0

\* d.wg.Wait() returns, and Close with it.
CloseReturn ==
    /\ ~crashed
    /\ closePc = "wait"
    /\ WaitDone
    /\ closePc' = "returned"
    /\ UNCHANGED igVars
    /\ UNCHANGED srVars
    /\ UNCHANGED <<chat, image, wg, dgOpen, crashed, quota, eventVars, chatVars,
                   imageVars, chatGhost, imageGhost>>

(***************************************************************************)
(* imagegen: New, Session.Close, Session.GenImage                          *)
(***************************************************************************)

\* The bot's variables are not touched by the session.
BotIdle == UNCHANGED <<queueVars, eventVars, chatVars, imageVars, chatGhost,
                       imageGhost>>

\* Session{steps: 8}
DefaultSteps == 8

\* The values of opts.Remote: unset, a host:port, and a text that is neither.
NoRemote == ""
Remotes == {NoRemote, "host:port", "bad"}

\* The values of opts.Model.
Models == {"python", "other"}

\* py.IsHostPort
IsHostPort(r) == r = "host:port"

\* What the completion signal can deliver: nil on a clean exit, else the
\* process's exit error.
ExitValues == {"nil", "exit error"}

\* The readiness probes New may make, and the GenImage calls, in a run.
MaxProbes == 2
MaxGens == 2

\* The Session before New filled it in, and after New started the sidecar or
\* took the remote endpoint.
NewSession == [baseURL |-> "", done |-> FALSE, cancel |-> FALSE,
               steps |-> DefaultSteps]
LocalSession == [NewSession EXCEPT !.baseURL = "http://localhost:port",
                                   !.done = TRUE, !.cancel = TRUE]
RemoteSession == [NewSession EXCEPT !.baseURL = "http://host:port"]

\* Something answers HTTP requests at baseURL: the remote endpoint, or the
\* sidecar process while it runs.
ServerUp == igSession.baseURL = RemoteSession.baseURL \/ igProc = "running"

\* New returns (nil, err).
IgFail(err) ==
    /\ igPc' = "returned"
    /\ igRet' = err

\* fmt.Errorf("failed to start: %w", err)
FailedToStart(v) ==
    IF v = "nil" THEN "failed to start: nil" ELSE "failed to start: exit error"

\* New returns (ig, nil) after logging "ready".
IgReturnSession ==
    /\ igPc' = "returned"
    /\ igRet' = "session"

\* IgLoopHead without the test of ctx.Err().
IgLoopHeadNoTest ==
    igPc' = "probe" /\ igProbes' = igProbes + 1 /\ UNCHANGED igRet

\* The head of New's polling loop: with ctx.Err() == nil the next probe is
\* sent, else the loop is left and New returns the session.
IgLoopHead ==
    IF igCtx
    THEN IgReturnSession /\ UNCHANGED igProbes
    ELSE igPc' = "probe" /\ igProbes' = igProbes + 1 /\ UNCHANGED igRet

\* New up to the first test of its polling loop.  Locally: the model name,
\* the cache directory, the virtual environment and py.Run, each of which can
\* fail, then the process runs.  With opts.Remote: the host:port check only.
IgNew ==
    /\ igPc = "new"
    /\ IF igOpts.remote = NoRemote
       THEN IF igOpts.model # "python"
            THEN IgFail("unknown model")
                 /\ UNCHANGED <<igSession, igProc, igProbes>>
            ELSE \E e \in {"mkdir", "venv", "run", "started"} :
                   IF e # "started"
                   THEN IgFail(e) /\ UNCHANGED <<igSession, igProc, igProbes>>
                   ELSE /\ igSession' = LocalSession
                        /\ igProc' = "running"
                        /\ IgLoopHead
       ELSE IF ~IsHostPort(igOpts.remote)
            THEN IgFail("invalid remote")
                 /\ UNCHANGED <<igSession, igProc, igProbes>>
            ELSE /\ igSession' = RemoteSession
                 /\ IgLoopHead
                 /\ UNCHANGED igProc
    /\ UNCHANGED <<igOpts, igCtx, igTermReq, igDone, igReady, igClosePc,
                   igCloseRet, igGens, igGenRet>>
    /\ BotIdle
    /\ UNCHANGED srVars

\* The probe of /api/health returns: ready, not ready, or an error.  A
\* cancelled ctx and a server that is down give an error.
IgProbeReturn ==
    /\ igPc = "probe"
    /\ \E r \in {"ready", "not ready", "error"} :
         /\ r # "error" => ~igCtx /\ ServerUp
         /\ IF r = "ready"
            THEN IgReturnSession /\ igReady' = TRUE
            ELSE igPc' = "select" /\ UNCHANGED <<igRet, igReady>>
    /\ UNCHANGED <<igOpts, igSession, igCtx, igProc, igTermReq, igDone,
                   igProbes, igClosePc, igCloseRet, igGens, igGenRet>>
    /\ BotIdle
    /\ UNCHANGED srVars

\* The select of the polling loop receives from ig.done (never, when the
\* handle is unset): New returns "failed to start" wrapping the value.
IgSelectDone ==
    /\ igPc = "select"
    /\ igSession.done /\ igDone # <<>>
    /\ igDone' = Tail(igDone)
    /\ IgFail(FailedToStart(Head(igDone)))
    /\ UNCHANGED <<igOpts, igSession, igCtx, igProc, igTermReq, igProbes,
                   igReady, igClosePc, igCloseRet, igGens, igGenRet>>
    /\ BotIdle
    /\ UNCHANGED srVars

\* The select of the polling loop receives from ctx.Done(): the loop's test
\* fails and New returns the session.
IgSelectCtx ==
    /\ igPc = "select"
    /\ igCtx
    /\ IgLoopHead
    /\ UNCHANGED <<igOpts, igSession, igCtx, igProc, igTermReq, igDone,
                   igReady, igClosePc, igCloseRet, igGens, igGenRet>>
    /\ BotIdle
    /\ UNCHANGED srVars

\* The select of the polling loop blocked for 100 ms with nothing else to
\* receive: the next turn of the loop.
IgSelectTimer ==
    /\ igPc = "select"
    /\ ~igCtx
    /\ ~(igSession.done /\ igDone # <<>>)
    /\ igProbes < MaxProbes
    /\ IgLoopHead
    /\ UNCHANGED <<igOpts, igSession, igCtx, igProc, igTermReq, igDone,
                   igReady, igClosePc, igCloseRet, igGens, igGenRet>>
    /\ BotIdle
    /\ UNCHANGED srVars

\* The caller of New cancels ctx.
IgCancel ==
    /\ igPc # "off"
    /\ ~igCtx
    /\ igCtx' = TRUE
    /\ UNCHANGED <<igOpts, igPc, igRet, igSession, igProc, igTermReq, igDone,
                   igProbes, igReady, igClosePc, igCloseRet, igGens, igGenRet>>
    /\ BotIdle
    /\ UNCHANGED srVars

\* The sidecar process exits, by itself or because it was told to: the
\* completion signal delivers its exit value, once.
IgProcExit ==
    /\ igProc = "running"
    /\ igProc' = "exited"
    /\ \E v \in ExitValues : igDone' = Append(igDone, v)
    /\ UNCHANGED <<igOpts, igPc, igRet, igSession, igCtx, igTermReq, igProbes,
                   igReady, igClosePc, igCloseRet, igGens, igGenRet>>
    /\ BotIdle
    /\ UNCHANGED srVars

\* GenImage is accepted with the previous call answered by an image only.
GenImageAcceptedAfterImage ==
    igRet = "session" /\ \A i \in DOMAIN igGenRet : igGenRet[i] = "image"

\* GenImage can be called on the session New returned, whatever the earlier
\* calls returned.
GenImageAccepted == igRet = "session"

\* What a GenImage call can return: the image, or the error of the HTTP
\* exchange, of the JSON decoding (malformed, or with an unknown field), or of
\* the PNG decoding.
GenOutcomes == {"image", "transport", "decode", "unknown field", "png"}

\* Session.GenImage: one request to /api/generate and its answer.
IgGenImage ==
    /\ GenImageAccepted
    /\ igGens < MaxGens
    /\ igGens' = igGens + 1
    /\ \E r \in GenOutcomes :
         /\ r # "transport" => ServerUp
         /\ igGenRet' = Append(igGenRet, r)
    /\ UNCHANGED <<igOpts, igPc, igRet, igSession, igCtx, igProc, igTermReq,
                   igDone, igProbes, igReady, igClosePc, igCloseRet>>
    /\ BotIdle
    /\ UNCHANGED srVars

\* Close skipping the test of ig.cancel.
HasCancelAlways(sess) == TRUE

\* Session.Close's test of ig.cancel.
HasCancel(sess) == sess.cancel

\* Session.Close is called: without a terminate handle it returns nil, else
\* it invokes the handle and waits for the completion signal.
IgClose ==
    /\ igRet = "session"
    /\ igClosePc = "idle"
    /\ IF ~HasCancel(igSession)
       THEN /\ igClosePc' = "returned"
            /\ igCloseRet' = "nil"
            /\ UNCHANGED igTermReq
       ELSE /\ igClosePc' = "wait"
            /\ igTermReq' = TRUE
            /\ UNCHANGED igCloseRet
    /\ UNCHANGED <<igOpts, igPc, igRet, igSession, igCtx, igProc, igDone,
                   igProbes, igReady, igGens, igGenRet>>
    /\ BotIdle
    /\ UNCHANGED srVars

\* Close returning nil whatever the completion signal delivers.
CloseValueNil(ch) == "nil"

\* What Close returns: the value it receives from ig.done.
CloseValue(ch) == Head(ch)

\* Session.Close receives from ig.done and returns the value.
IgCloseRecv ==
    /\ igClosePc = "wait"
    /\ igDone # <<>>
    /\ igCloseRet' = CloseValue(igDone)
    /\ igDone' = Tail(igDone)
    /\ igClosePc' = "returned"
    /\ UNCHANGED <<igOpts, igPc, igRet, igSession, igCtx, igProc, igTermReq,
                   igProbes, igReady, igGens, igGenRet>>
    /\ BotIdle
    /\ UNCHANGED srVars

(***************************************************************************)
(* The bot as a whole                                                      *)
(***************************************************************************)

\* A word that splitResponse sends whole, and one it panics on.
Hello == <<"H", "e", "l", "l", "o", " ", "y", "o", "u", ".">>
Paren == <<"(">>

\* The words of the streams that exercise the flusher: a sentence, a fence
\* marker, a backquote, a newline, the start of a bullet, and Paren.
ChunkTokens == {Hello, Fence, <<BQ>>, <<"\n">>, <<"-", " ">>, Paren}

\* The runs that fill one queue: messages only, and image commands only.
AdmitChatRun ==
    [chat |-> ChatCap + Overflow, image |-> 0, words |-> 0, closes |-> 1,
     tokens |-> {}, msgs |-> {<<"h", "i">>}, guilds |-> {Empty}, cmds |-> {},
     forget |-> FALSE]
AdmitImageRun ==
    [chat |-> 0, image |-> ImageCap + Overflow, words |-> 0, closes |-> 1,
     tokens |-> {}, msgs |-> {}, guilds |-> {}, cmds |-> {"image_manual"},
     forget |-> FALSE]

\* The runs with a few messages, each answered by a short stream.
OrderRun ==
    [chat |-> OrderEvents, image |-> 0, words |-> BothWords, closes |-> 1,
     tokens |-> {Hello}, msgs |-> {<<"h", "i">>}, guilds |-> {Empty},
     cmds |-> {},
     forget |-> FALSE]

\* The runs with requests of both kinds.
BothRun ==
    [chat |-> BothEvents, image |-> BothEvents, words |-> BothWords,
     closes |-> 1, tokens |-> {Hello, Paren}, msgs |-> {<<"h", "i">>},
     guilds |-> {Empty, <<"g">>},
     cmds |-> {"meme_auto", "meme_labels_auto"},
     forget |-> FALSE]

\* The runs with one message answered by a stream of any ChunkTokens, in a
\* process that is not told to stop.
ChunkRun ==
    [chat |-> ChunkEvents, image |-> 0, words |-> ChunkWords, closes |-> 0,
     tokens |-> ChunkTokens, msgs |-> {<<"h", "i">>}, guilds |-> {Empty},
     cmds |-> {},
     forget |-> FALSE]

\* The runs with one message and the /forget command.
ForgetRun ==
    [chat |-> ForgetEvents, image |-> 0, words |-> ForgetWords, closes |-> 0,
     tokens |-> {Hello}, msgs |-> {<<"h", "i">>}, guilds |-> {Empty},
     cmds |-> {}, forget |-> TRUE]

\* What the environment does in a run r when the LLM streams the words s:
\* the number of events of each kind and of calls of Close, the fields of the
\* events, and the stream.  PromptStreaming may end before the last word.
Quota(r, s) ==
    [chat |-> r.chat, image |-> r.image, closes |-> r.closes, stream |-> s,
     msgs |-> r.msgs, guilds |-> r.guilds, cmds |-> r.cmds,
     forget |-> r.forget]

\* newDiscordBot returned: both workers wait on their empty queues.  runs
\* are the environments the run may have.
BotInit(runs) ==
    /\ \E r \in runs : \E s \in [1..r.words -> r.tokens] : quota = Quota(r, s)
    /\ dgOpen = TRUE
    /\ msgSeq = 0 /\ intSeq = 0
    /\ msgHandlers = {} /\ intHandlers = {}
    /\ chat = <<>> /\ image = <<>>
    /\ wg = Workers
    /\ closePc = "idle"
    /\ crashed = FALSE
    /\ chatPc = "recv" /\ chatReq = ZeroMsgReq
    /\ imagePc = "recv" /\ imageReq = ZeroIntReq
    /\ content = <<>>
    /\ hpPc = "idle" /\ hpErr = FALSE /\ produced = 0
    /\ words = <<>> /\ wordsClosed = FALSE
    /\ flPc = "off" /\ text = Empty /\ pending = Empty /\ replyToID = Empty
    /\ mem = [a \in Authors |-> <<>>]
    /\ sent = <<>> /\ edits = <<>> /\ acked = {}
    /\ chatAdmitted = <<>> /\ chatTaken = <<>> /\ chatRejected = {}
    /\ chatOwner = Empty /\ chatFinished = {} /\ chatDue = {}
    /\ imageAdmitted = <<>> /\ imageTaken = <<>> /\ imageRejected = {}
    /\ imageOwner = Empty /\ imageFinished = {} /\ imageDue = {}

\* The session before New is called, with New's options and a context that
\* is not cancelled yet.
IgInit(pc, remotes, models) ==
    /\ igOpts \in [remote : remotes, model : models]
    /\ igPc = pc
    /\ igRet = "none"
    /\ igSession = NewSession
    /\ igCtx = FALSE
    /\ igProc = "none"
    /\ igTermReq = FALSE
    /\ igDone = <<>>
    /\ igProbes = 0
    /\ igReady = FALSE
    /\ igClosePc = "idle"
    /\ igCloseRet = "none"
    /\ igGens = 0
    /\ igGenRet = <<>>

\* The tick taken by itself, before it fires on one of the texts given.
SrInit(pc, texts) ==
    /\ srPc = pc
    /\ srIn \in texts
    /\ srOut = 0
    /\ srChunk = Empty
    /\ srRest = Empty

\* The bot in the runs given, its image generation session and the tick by
\* itself left aside.
InitRuns(runs) ==
    /\ BotInit(runs)
    /\ IgInit("off", {NoRemote}, {"python"})
    /\ SrInit("off", {Empty})

\* The runs of the bot as a whole.
BotRuns ==
    {AdmitChatRun, AdmitImageRun, OrderRun, BothRun, ChunkRun, ForgetRun}

Init == InitRuns(BotRuns)

\* The steps of the chat pipeline.
ChatWork ==
    \/ MessageCreate
    \/ MessageEnqueue
    \/ ChatRecv
    \/ PromptStreamingWord
    \/ PromptStreamingReturn
    \/ FlusherWord
    \/ FlusherClosed
    \/ FlusherTick
    \/ HandlePromptReturn

\* The steps of the image pipeline.
ImageWork ==
    \/ ImageInteraction
    \/ ImageEnqueue
    \/ ImageAck
    \/ ImageRecv
    \/ ImagePrompt
    \/ ImageLabels
    \/ ImageGen
    \/ ImageEncode

\* The steps of Close.
CloseWork ==
    \/ CloseSession
    \/ ClosePoisonChat
    \/ ClosePoisonImage
    \/ CloseReturn

Next == ChatWork \/ ImageWork \/ CloseWork \/ OnForget

Spec == Init /\ [][Next]_vars

\* A process in which nothing is delivered to the bot.
QuietRun ==
    [chat |-> 0, image |-> 0, words |-> 0, closes |-> 0, tokens |-> {},
     msgs |-> {}, guilds |-> {}, cmds |-> {},
     forget |-> FALSE]

\* The image generation session by itself: New is called with any options,
\* then GenImage and Close on the session it returned, while the caller may
\* cancel ctx and the sidecar process may exit.
SidecarInit ==
    /\ BotInit({QuietRun})
    /\ IgInit("new", Remotes, Models)
    /\ SrInit("off", {Empty})

SidecarNext ==
    \/ IgNew
    \/ IgProbeReturn
    \/ IgSelectDone
    \/ IgSelectCtx
    \/ IgSelectTimer
    \/ IgCancel
    \/ IgProcExit
    \/ IgGenImage
    \/ IgClose
    \/ IgCloseRecv

SidecarSpec == SidecarInit /\ [][SidecarNext]_vars

\* The words the pending texts of the tick taken by itself are made of: those
\* of ChunkTokens, the other bullet, the start of a numbered item, and a word
\* without punctuation.
Star == <<"*", " ">>
Num  == <<"1", ".", " ">>
Rest == <<" ", "r", "e", "s", "t">>
SplitTokens == ChunkTokens \cup {Star, Num, Rest}

\* The pending texts: up to SplitWords words of SplitTokens, one after the
\* other.
SplitInputs ==
    UNION {{Concat(w) : w \in [1..n -> SplitTokens]} : n \in 0..SplitWords}

\* The tick of the flusher on pending = srIn: splitResponse is called and
\* panics or returns i; with i = 0 nothing is sent, else pending[:i] is sent
\* and pending[i:] kept.
SplitTick ==
    /\ srPc = "call"
    /\ LET i == splitResponse(srIn)
       IN  IF i = Panicked
           THEN /\ srPc' = "panicked"
                /\ UNCHANGED <<srOut, srChunk, srRest>>
           ELSE /\ srPc' = "returned"
                /\ srOut' = i
                /\ srChunk' = Slice(srIn, 0, i)
                /\ srRest' = Slice(srIn, i, Len(srIn))
    /\ UNCHANGED srIn
    /\ UNCHANGED igVars
    /\ BotIdle

\* One tick on any of the pending texts.
SplitInit ==
    /\ BotInit({QuietRun})
    /\ IgInit("off", {NoRemote}, {"python"})
    /\ SrInit("call", SplitInputs)

SplitNext == SplitTick

SplitSpec == SplitInit /\ [][SplitNext]_vars

\* A process whose terminate handle was invoked exits, and a Close that can
\* receive the completion signal does.
SidecarFairness ==
    /\ WF_vars(igTermReq /\ IgProcExit)
    /\ WF_vars(IgCloseRecv)

SidecarFairSpec == SidecarSpec /\ SidecarFairness

\* What the scheduler and the collaborators guarantee: a goroutine that can
\* take a step takes it, the LLM and the image generator return, and a send
\* blocked on a channel goes through once there is room.  Discord need not
\* deliver events, Close need not be called, and ticks need not fire.
Fairness ==
    /\ WF_vars(MessageEnqueue) /\ WF_vars(ImageEnqueue) /\ WF_vars(ImageAck)
    /\ WF_vars(ChatRecv) /\ WF_vars(PromptStreamingReturn)
    /\ WF_vars(FlusherWord) /\ WF_vars(FlusherClosed)
    /\ WF_vars(HandlePromptReturn)
    /\ WF_vars(ImageRecv) /\ WF_vars(ImagePrompt) /\ WF_vars(ImageLabels)
    /\ WF_vars(ImageGen) /\ WF_vars(ImageEncode)
    /\ WF_vars(ClosePoisonChat) /\ WF_vars(ClosePoisonImage)
    /\ WF_vars(CloseReturn)

FairSpec == Init /\ [][Next]_vars /\ Fairness

(***************************************************************************)
(* Properties                                                              *)
(***************************************************************************)

\* The elements of a sequence.
Range(q) == {q[k] : k \in 1..Len(q)}

\* s is a prefix of t.
IsPrefix(s, t) == Len(s) <= Len(t) /\ \A k \in 1..Len(s) : s[k] = t[k]

\* The place of x in the sequence q without repetition, 0 when absent.
Pos(q, x) == IF x \in Range(q) THEN CHOOSE k \in 1..Len(q) : q[k] = x ELSE 0

\* The requests taken by a worker whose handling has not returned.
InFlight(taken, finished) == {x \in Range(taken) : x \notin finished}

\* The onImage calls that are at the select.
AtSelect == {h \in intHandlers : h.pc = "select"}

\* The select of a handler that leaves the select in this step failed when
\* the queue was at capacity and succeeded when it was not.
C1Select ==
    /\ \A req \in msgHandlers \ msgHandlers' :
         IF Len(chat) >= ChatCap
         THEN chat' = chat /\ req.replyToID \in chatRejected'
         ELSE chat' = Append(chat, req) /\ req.replyToID \notin chatRejected'
    /\ \A h \in AtSelect \ intHandlers' :
         IF Len(image) >= ImageCap
         THEN image' = image /\ h.req.int \in imageRejected'
         ELSE image' = Append(image, h.req) /\ h.req.int \notin imageRejected'

\* A handler at its select can take its step, no queue exceeds its capacity,
\* and no rejected request reaches a worker.
C1State ==
    /\ ~crashed /\ msgHandlers # {} => ENABLED MessageEnqueue
    /\ ~crashed /\ AtSelect # {} => ENABLED ImageEnqueue
    /\ Len(chat) <= ChatCap /\ Len(image) <= ImageCap
    /\ chatRejected \cap (Range(chatAdmitted) \cup Range(chatTaken)) = {}
    /\ imageRejected \cap (Range(imageAdmitted) \cup Range(imageTaken)) = {}

\* C1: admission never blocks.  The select of onMessageCreate (capacity 5)
\* and of onImage (capacity 3) fails at once when the queue is at capacity,
\* with the "too many pending" reply and the request never reaching the
\* worker, and succeeds at once below capacity; a handler at its select is
\* never blocked.
C1_AdmissionNeverBlocks == []C1State /\ [][C1Select]_vars

\* C1's case: a message was rejected on the full chat queue while the worker
\* had taken an earlier one.
C1_Witness ==
    /\ chatRejected # {}
    /\ Len(chat) = ChatCap
    /\ chatTaken # <<>>

\* The deliveries move from one request to a request admitted after it, and
\* each is made for the request its worker took last.
C2Step ==
    /\ chatOwner' # chatOwner =>
         /\ Pos(chatAdmitted, chatOwner') > Pos(chatAdmitted, chatOwner)
         /\ chatOwner' = chatTaken[Len(chatTaken)]
    /\ imageOwner' # imageOwner =>
         /\ Pos(imageAdmitted, imageOwner') > Pos(imageAdmitted, imageOwner)
         /\ imageOwner' = imageTaken[Len(imageTaken)]

\* C2: the requests of one kind are handled in the order of their admission,
\* one at a time: the worker takes them in that order and every delivery of a
\* request (chunk, forced flush, failure message, response edit) comes before
\* every delivery of a request admitted after it.
C2_SameKindInOrder ==
    /\ [](IsPrefix(chatTaken, chatAdmitted) /\ IsPrefix(imageTaken, imageAdmitted))
    /\ [][C2Step]_vars

\* C2's case: three messages were admitted, the first two are done and the
\* third has a delivery.
C2_Witness ==
    /\ Len(chatAdmitted) >= 3
    /\ {chatAdmitted[1], chatAdmitted[2]} \subseteq chatFinished
    /\ chatOwner = chatAdmitted[3]
    /\ sent # <<>>

\* C3: at most one chat request and at most one image request is being
\* handled, and the flusher goroutine lives only inside the handlePrompt call
\* of that chat request; the two kinds may be handled at the same time.
C3_OnePerKind ==
    /\ Cardinality(InFlight(chatTaken, chatFinished)) <= 1
    /\ Cardinality(InFlight(imageTaken, imageFinished)) <= 1
    /\ flPc # "off" => chatPc = "handle" /\ hpPc # "idle"

\* C3's case: a chat request and an image request are handled at once.
C3_Witness ==
    /\ chatPc = "handle" /\ flPc = "run"
    /\ imagePc \in {"prompt", "labels", "gen", "encode"}

\* C4: every admitted request is handed to its worker exactly once, the
\* value Close puts on a queue is the last item of the queue, and no admitted
\* request is left when Close has returned.
C4_ExactlyOnce ==
    /\ \A k \in 1..Len(chat) : IsChatPoison(chat[k]) => k = Len(chat)
    /\ \A k \in 1..Len(image) : IsImagePoison(image[k]) => k = Len(image)
    /\ \A j, k \in 1..Len(chatTaken) : chatTaken[j] = chatTaken[k] => j = k
    /\ \A j, k \in 1..Len(imageTaken) : imageTaken[j] = imageTaken[k] => j = k
    /\ closePc = "returned" =>
         /\ Range(chatAdmitted) \subseteq Range(chatTaken)
         /\ Range(imageAdmitted) \subseteq Range(imageTaken)

\* What Close waits for: when a worker is done, every request it took and
\* every request admitted before Close's value has been handled to the end;
\* Close has returned only if both workers called Done.
C5State ==
    /\ chatPc = "done" =>
         chatDue \cup Range(chatTaken) \subseteq chatFinished
    /\ imagePc = "done" =>
         imageDue \cup Range(imageTaken) \subseteq imageFinished
    /\ closePc = "returned" => chatPc = "done" /\ imagePc = "done" /\ wg = 0

\* C5: the shutdown drains.  After Close is called, the request a worker
\* holds and every request admitted before Close's value are handled to the
\* end, then the workers return, and Close returns only after both called
\* Done; when the goroutines are scheduled fairly and the handlers return,
\* Close returns (a handler that panics ends the process instead).
C5_ShutdownDrains ==
    /\ []C5State
    /\ (closePc # "idle") ~> (closePc = "returned" \/ crashed)

\* C5's case: Close returned after requests of both kinds were admitted
\* before its values.
C5_Witness ==
    /\ closePc = "returned"
    /\ chatDue # {} /\ imageDue # {}

\* A worker ends only in a step that takes the value of Close off its queue,
\* and that step calls Done once.
C6Step ==
    /\ chatPc' = "done" /\ chatPc # "done" =>
         /\ chat # <<>> /\ Head(chat) = ZeroMsgReq
         /\ closePc \notin {"idle", "chat"}
         /\ wg' = wg - 1
    /\ imagePc' = "done" /\ imagePc # "done" =>
         /\ image # <<>> /\ Head(image) = ZeroIntReq
         /\ closePc \notin {"idle", "chat", "image"}
         /\ wg' = wg - 1
    /\ wg' # wg => (chatPc' # chatPc) \/ (imagePc' # imagePc)

\* No request a handler built passes for the value of Close, and Done was
\* called once for each worker that ended.
C6State ==
    /\ \A req \in msgHandlers \cup Range(chat) :
         IsChatPoison(req) => req = ZeroMsgReq
    /\ \A req \in {h.req : h \in intHandlers} \cup Range(image) :
         IsImagePoison(req) => req = ZeroIntReq
    /\ wg = Workers - (IF chatPc = "done" THEN 1 ELSE 0)
                    - (IF imagePc = "done" THEN 1 ELSE 0)

\* C6: chatRoutine and imageRoutine return only on the value Close put on
\* their queue, calling Done exactly once; no request built by
\* onMessageCreate or onImage passes for that value.
C6_OnlyPoisonEndsWorker == []C6State /\ [][C6Step]_vars

\* C6's case: both workers ended on the values of Close, after each handled
\* a request.
C6_Witness ==
    /\ chatPc = "done" /\ imagePc = "done" /\ wg = 0
    /\ chatFinished # {} /\ imageFinished # {}

\* The messages of the flusher among those sent for the request in hand: the
\* chunks sent on ticks and the forced flush.
RECURSIVE Flushed(_)
Flushed(ms) ==
    IF ms = <<>> THEN <<>>
    ELSE IF Head(ms).kind \in {"chunk", "final"}
    THEN <<Head(ms)>> \o Flushed(Tail(ms))
    ELSE Flushed(Tail(ms))

\* The text the flusher emitted for the request in hand, in emission order.
Emitted == Concat([k \in 1..Len(Flushed(sent)) |-> Flushed(sent)[k].content])

\* The text of the words the flusher received from words so far.
Received == Concat(SubSeq(quota.stream, 1, produced - Len(words)))

\* The stream of the request in hand is over for the flusher: it saw words
\* closed and returned, or the process is gone.
StreamOver == hpPc # "idle" /\ (flPc = "done" \/ crashed)

\* C7: for every token stream and every interleaving of words and ticks, the
\* chunks emitted on ticks followed by the forced flush are, in order, the
\* text of all the words received: until the stream is over the text emitted
\* followed by pending is the text received, and when it is over the text
\* emitted is the text received, nothing lost, repeated or out of place.
C7_NothingLost ==
    /\ hpPc # "idle" => Emitted = text
    /\ flPc = "run" => text \o pending = Received
    /\ StreamOver => Emitted = Received

\* C8: a chunk sent on a tick never ends inside an open fence: the prefix of
\* pending that splitResponse selects, and every chunk sent on a tick, hold
\* no fence marker or one complete fenced block.
C8_NoOpenFence ==
    /\ flPc = "run" /\ splitResponse(pending) > 0 =>
         Count(Slice(pending, 0, splitResponse(pending)), Fence) \in {0, 2}
    /\ \A k \in 1..Len(sent) :
         sent[k].kind = "chunk" => Count(sent[k].content, Fence) \in {0, 2}

\* C8's case: a tick sent a complete fenced block with text inside and kept
\* back what follows it.
C8_Witness ==
    /\ sent # <<>> /\ sent[Len(sent)].kind = "chunk"
    /\ Count(sent[Len(sent)].content, Fence) = 2
    /\ Len(sent[Len(sent)].content) > 2 * Len(Fence)
    /\ flPc = "run"

\* C9: a chunk sent on a tick never ends inside an inline-code span: it
\* never holds an odd number of backquotes, whether the newline rule or the
\* punctuation rule chose where to cut.
C9_NoOpenCodeSpan ==
    \A k \in 1..Len(sent) :
        sent[k].kind = "chunk" => Count(sent[k].content, <<BQ>>) % 2 = 0

\* The step in which the flusher sees words closed sends all of pending once
\* when pending is not empty and nothing when it is; after it the only
\* message for the request is handlePrompt's failure message.
C10Step ==
    /\ flPc = "run" /\ flPc' = "done" =>
         IF pending # Empty
         THEN /\ Len(sent') = Len(sent) + 1
              /\ SubSeq(sent', 1, Len(sent)) = sent
              /\ sent'[Len(sent')].kind = "final"
              /\ sent'[Len(sent')].content = pending
         ELSE sent' = sent
    /\ flPc = "done" /\ sent' # sent =>
         \/ flPc' = "run"
         \/ /\ Len(sent') = Len(sent) + 1
            /\ SubSeq(sent', 1, Len(sent)) = sent
            /\ sent'[Len(sent')].kind = "fail"

\* The flusher that returned takes no further step, and there is at most one
\* forced flush, after every chunk.
C10State ==
    /\ flPc = "done" =>
         ~ENABLED FlusherWord /\ ~ENABLED FlusherTick /\ ~ENABLED FlusherClosed
    /\ \A k \in 1..Len(Flushed(sent)) :
         Flushed(sent)[k].kind = "final" => k = Len(Flushed(sent))

\* C10: when the flusher finds the stream closed with pending not empty it
\* makes exactly one final emission, of all of pending, whatever
\* splitResponse would say of it; with pending empty it makes none; then it
\* stops and emits nothing more.
C10_CloseFlushesOnce == []C10State /\ [][C10Step]_vars

\* C10's case: the flusher returned after the forced flush of a text that
\* splitResponse would have kept back, an open fence.
C10_Witness ==
    /\ flPc = "done"
    /\ sent # <<>> /\ sent[Len(sent)].kind = "final"
    /\ Count(sent[Len(sent)].content, Fence) = 1
    /\ splitResponse(sent[Len(sent)].content) = 0

\* The completion signal fired and its value waits to be received.
DoneFired == igSession.done /\ igDone # <<>>

\* C11: a context cancelled while New polls makes New fail: New returns an
\* error and no Session, and it never returns a Session as ready when no
\* readiness probe succeeded.
C11_CancelFails ==
    igPc = "returned" /\ ~igReady => igRet # "session"

\* The polling goes on while ctx is not cancelled and the completion signal
\* has not fired, and it ends without a ready answer only through one of
\* the two.
C12State ==
    /\ igPc = "probe" => ENABLED IgProbeReturn
    /\ igPc = "select" /\ ~igCtx /\ ~DoneFired /\ igProbes < MaxProbes =>
         ENABLED IgSelectTimer
    /\ igPc = "returned" /\ igProbes > 0 /\ ~igReady =>
         igCtx \/ igRet \in {FailedToStart(v) : v \in ExitValues}

\* Each turn of the loop sends one probe, and no turn starts once ctx is
\* cancelled or the completion signal has fired.
C12Step ==
    igProbes' # igProbes =>
        /\ igProbes' = igProbes + 1
        /\ igPc \in {"new", "select"} /\ igPc' = "probe"
        /\ ~igCtx
        /\ igPc = "select" => ~DoneFired /\ igProc # "exited"

\* C12: against a sidecar that never reports ready the polling ends only
\* through the cancellation of ctx or the completion signal: New sends one
\* probe per 100 ms wait while neither has happened and starts no poll round
\* once either has.
C12_PollingEnds == []C12State /\ [][C12Step]_vars

\* C12's case: after two probes that were not answered "ready", the wait of
\* New ended on the completion signal.
C12_Witness ==
    /\ igPc = "returned" /\ igProbes = MaxProbes /\ ~igReady
    /\ igRet \in {FailedToStart(v) : v \in ExitValues}
    /\ ~igCtx

\* C13: a sidecar process that exits before it was ready makes New stop
\* polling and return "failed to start" wrapping the exit error, and no
\* Session: when New returns with the process gone and no ready answer, it
\* returns that error, having made no further probe and started no process.
C13_EarlyExitFails ==
    [][ /\ igPc # "returned" /\ igPc' = "returned"
        /\ igProc = "exited" /\ ~igReady'
        => /\ igRet' \in {FailedToStart(v) : v \in ExitValues}
           /\ igProbes' = igProbes /\ igProc' = igProc ]_vars

\* A GenImage call adds its own return to the returns and leaves the
\* session, and what New and Close returned, as they were.
C14Step ==
    igGenRet' # igGenRet =>
        /\ \E r \in GenOutcomes : igGenRet' = Append(igGenRet, r)
        /\ igSession' = igSession
        /\ igRet' = igRet /\ igClosePc' = igClosePc /\ igCloseRet' = igCloseRet
        /\ igTermReq' = igTermReq /\ igDone' = igDone

\* GenImage is accepted on the session whatever the earlier calls returned.
C14State ==
    igRet = "session" /\ igGens < MaxGens => ENABLED IgGenImage

\* C14: a GenImage call that fails (in the HTTP exchange, on an answer that
\* cannot be decoded or that has an unknown field) returns an error for that
\* call only: the Session (base URL, steps, completion signal, terminate
\* handle) is unchanged and later GenImage calls are accepted.
C14_GenImageFailureIsLocal == []C14State /\ [][C14Step]_vars

\* C14's case: after a call that failed on an unknown field, the next call
\* on the same session returned an image.
C14_Witness ==
    /\ igGenRet = <<"unknown field", "image">>
    /\ igSession = LocalSession

\* New was called with a remote endpoint.
IsRemote == igOpts.remote # NoRemote

\* With a remote endpoint nothing is provisioned and no process exists: the
\* session has no completion signal and no terminate handle, New polls the
\* remote endpoint, and Close neither waits nor returns anything but nil.
C15State ==
    IsRemote =>
        /\ igProc = "none" /\ igDone = <<>> /\ ~igTermReq
        /\ ~igSession.done /\ ~igSession.cancel
        /\ igRet \in {"none", "session", "invalid remote"}
        /\ igPc \in {"probe", "select"} => igSession = RemoteSession
        /\ igRet = "session" => igSession = RemoteSession
        /\ igClosePc # "wait"
        /\ igClosePc = "returned" => igCloseRet = "nil"

\* With a remote endpoint a call of Close returns in its first step.
C15Step ==
    IsRemote /\ igClosePc' # igClosePc =>
        igClosePc = "idle" /\ igClosePc' = "returned" /\ igCloseRet' = "nil"

\* C15: with a remote endpoint New provisions nothing and starts no process
\* (no completion signal, no terminate handle), polls the remote endpoint
\* directly, and Close returns nil at once, without invoking a terminate
\* handle and without blocking.
C15_RemoteHasNoProcess == []C15State /\ [][C15Step]_vars

\* C15's case: the remote endpoint answered ready and Close has returned.
C15_Witness ==
    /\ IsRemote /\ igReady /\ igRet = "session"
    /\ igClosePc = "returned"

\* Close on a session with a process first invokes the terminate handle and
\* waits, and returns only by receiving the value of the completion signal.
C16Step ==
    ~IsRemote /\ igClosePc' # igClosePc =>
        \/ /\ igClosePc = "idle" /\ igClosePc' = "wait"
           /\ igTermReq' /\ igCloseRet' = igCloseRet
        \/ /\ igClosePc = "wait" /\ igClosePc' = "returned"
           /\ igTermReq /\ DoneFired
           /\ igCloseRet' = Head(igDone) /\ igDone' = Tail(igDone)

\* C16: Close on a session with a local process invokes the terminate
\* handle, blocks until the completion signal fires and returns its value
\* (nil on a clean exit); and the call of Close eventually returns.
C16_CloseWaitsAndReturns ==
    /\ [][C16Step]_vars
    /\ (igClosePc = "wait" ~> igClosePc = "returned")

\* C16's case: Close on a local session has returned the exit error that the
\* completion signal delivered after the terminate handle was invoked.
C16_Witness ==
    /\ igSession = LocalSession /\ igTermReq
    /\ igClosePc = "returned" /\ igCloseRet = "exit error"

\* C17: handleImage delivers exactly one final response edit on every path
\* (labels only, GenImage failure, PNG encoding failure, success): when it
\* returns, one edit was made for the request, it carries the status text
\* accumulated so far, and it has the image only on the path on which the
\* image was generated and encoded.
C17_OneFinalEdit ==
    [][ imageFinished' # imageFinished =>
          /\ Len(edits') = 1
          /\ edits'[1].int = imageReq.int
          /\ HasPrefix(edits'[1].content, content)
          /\ edits'[1].file => imagePc = "encode" ]_vars

\* The LLM calls of handleImage that failed left their error line in content.
LLMFailed == "LLM Error" \in Range(content)

\* C18: in handleImage a failed stage short-circuits the later ones: once an
\* LLM call failed for the request, neither the LLM call for the labels nor
\* GenImage is made.
C18_FailureShortCircuits ==
    [][ LLMFailed =>
          /\ ~( /\ imagePc = "labels" /\ imagePc' # "labels"
                /\ imageReq.cmdName \in {"meme_auto", "meme_labels_auto"} )
          /\ ~( imagePc = "gen" /\ imagePc' # "gen" ) ]_vars

\* The messages sent for the request in hand grow by one message at the end;
\* the list starts anew only when the worker takes the next request.
C19Append ==
    sent' # sent =>
        \/ \E m \in Range(sent') : sent' = Append(sent, m)
        \/ sent' = <<>> /\ chatPc = "recv"

\* The failure message is sent once the flusher has returned, with all the
\* text PromptStreaming produced already sent as chunks and forced flush.
C19Fail ==
    Len(sent') = Len(sent) + 1 /\ sent'[Len(sent')].kind = "fail" =>
        /\ hpErr /\ flPc = "done" /\ words = <<>>
        /\ Emitted = Concat(SubSeq(quota.stream, 1, produced))
        /\ \A i \in 1..Len(sent) : sent[i].kind \in {"chunk", "final"}

\* No message follows the failure message of a request.
C19Last ==
    \A i \in 1..Len(sent) : sent[i].kind = "fail" => i = Len(sent)

\* C19: when PromptStreaming fails, "Prompt generation failed" is sent as a
\* new message only after the flusher delivered every chunk and the forced
\* flush of pending; it is the last message sent for the request, and no
\* message already sent is changed or withdrawn.
C19_FailureMessageLast == []C19Last /\ [][C19Append /\ C19Fail]_vars

\* C19's case: the failure message was sent after a chunk and the forced
\* flush.
C19_Witness ==
    /\ Len(sent) = 3
    /\ sent[1].kind = "chunk" /\ sent[2].kind = "final"
    /\ sent[3].kind = "fail"

\* The chat worker handles a request of the author a.
InFlightFor(a) == chatPc = "handle" /\ chatReq.authorID = a

\* C20: the history of an (author, channel) pair is read and written only by
\* the chat worker handling that pair's request: while a request of the pair
\* is in flight, the only step that changes the pair's history is the
\* worker's own, the flusher recording the answer as it returns; onForget
\* does not touch it.
C20_HistoryOwnedByWorker ==
    [][ \A a \in Authors :
          InFlightFor(a) /\ mem'[a] # mem[a] =>
              flPc = "run" /\ flPc' = "done" ]_vars

\* The message the k-th message of the request in hand has to reply to: the
\* one the latest earlier emission produced, the user's message when none
\* produced one.
Anchor(k) ==
    LET S == {j \in 1..(k - 1) : sent[j].ok}
    IN  IF S = {} THEN chatReq.replyToID
        ELSE sent[CHOOSE j \in S : \A i \in S : i <= j].id

\* C21: within one chat stream the chunks are emitted in text order and form
\* a reply chain: the text emitted so far is the beginning of the text of the
\* stream, the first chunk replies to the user's message, and every later
\* chunk, the forced flush included, replies to the message that the
\* emission before it produced.
C21_ReplyChain ==
    hpPc # "idle" =>
        /\ IsPrefix(Emitted, Concat(SubSeq(quota.stream, 1, produced)))
        /\ \A k \in 1..Len(sent) :
             sent[k].kind \in {"chunk", "final"} => sent[k].ref = Anchor(k)

\* C21's case: two chunks and the forced flush, each delivered, the second
\* chunk replying to the first and the forced flush to the second.
C21_Witness ==
    /\ hpPc # "idle" /\ Len(sent) = 3
    /\ sent[1].kind = "chunk" /\ sent[1].ok /\ sent[1].ref = chatReq.replyToID
    /\ sent[2].kind = "chunk" /\ sent[2].ok /\ sent[2].ref = sent[1].id
    /\ sent[3].kind = "final" /\ sent[3].ref = sent[2].id

\* The tick taken by itself has fired.
Ticked == srPc \in {"returned", "panicked"}

\* The offsets of t at which a fence marker starts.
FenceAt(t) == {j \in 0..(Len(t) - 3) : HasPrefixAt(t, j, Fence)}

\* The least element of a set of numbers that is not empty.
Least(S) == CHOOSE j \in S : \A i \in S : j <= i

\* The offset just past the second fence marker of t, the second being the
\* first that starts after the end of the first.
PastSecondFence(t) ==
    Least({j \in FenceAt(t) : j >= Least(FenceAt(t)) + 3}) + 3

\* C22: with two or more fence markers in pending, splitResponse returns the
\* offset just past the second marker, whatever else the text holds: the
\* tick sends the first complete fenced block and keeps the rest.
C22_SecondFence ==
    Ticked /\ Count(srIn, Fence) >= 2 =>
        /\ srPc = "returned"
        /\ srOut = PastSecondFence(srIn)
        /\ srChunk = SubSeq(srIn, 1, srOut)
        /\ srRest = SubSeq(srIn, srOut + 1, Len(srIn))
        /\ Count(srChunk, Fence) = 2
        /\ HasPrefixAt(srChunk, Len(srChunk) - 3, Fence)

\* C22's case: a fenced block followed by a word; the block is sent and the
\* word kept.
C22_Witness ==
    /\ srPc = "returned"
    /\ srIn = Fence \o <<"\n">> \o Fence \o Rest
    /\ srChunk = Fence \o <<"\n">> \o Fence
    /\ srRest = Rest

\* C23: with exactly one fence marker in pending a tick emits nothing:
\* splitResponse returns 0 and the whole buffer is kept until the closing
\* fence arrives, whatever text precedes the opening fence.
C23_OneFenceFreezes ==
    srPc = "returned" /\ Count(srIn, Fence) = 1 =>
        srOut = 0 /\ srChunk = Empty /\ srRest = srIn

\* C23 as the code has it: with exactly one fence marker the tick, unless
\* splitResponse panics, cuts only in the text before the marker, where it
\* cuts as it would with that text alone; the marker and what follows it are
\* kept, and nothing is sent when the marker opens the buffer.
C23_OneFenceKept ==
    Ticked /\ Count(srIn, Fence) = 1 =>
        LET at == Least(FenceAt(srIn))
        IN  \/ srPc = "panicked"
            \/ /\ srOut \in 0..at
               /\ srOut = splitResponse(SubSeq(srIn, 1, at))
               /\ at = 0 => srChunk = Empty
               /\ srChunk = SubSeq(srIn, 1, srOut)
               /\ srRest = SubSeq(srIn, srOut + 1, Len(srIn))
               /\ Count(srChunk, Fence) = 0

\* C23's case: a sentence, an opening fence and a word; the sentence is sent
\* and the fence is kept with what follows it.
C23_Witness ==
    /\ srPc = "returned"
    /\ srIn = Hello \o Fence \o Rest
    /\ srChunk = Hello
    /\ srRest = Fence \o Rest

\* pending has no fence marker and no newline at offset MinSend or later.
NoFenceNoLateNewline(t) ==
    Count(t, Fence) = 0 /\ LastIndexByte(t, "\n") < MinSend

\* pending begins a numbered item: digits, a dot and a space.
IsNumbered(t) == HasPrefix(t, Num)

\* C24: when pending begins a list item, bulleted ("- " or "* ") or numbered
\* (digits, a dot and a space), and has no newline at offset 10 or later, a
\* tick emits nothing, whatever the length and the punctuation of pending.
C24_ListItemWaits ==
    /\ srPc = "returned" /\ NoFenceNoLateNewline(srIn)
    /\ IsBullet(srIn) \/ IsNumbered(srIn)
    => srOut = 0 /\ srChunk = Empty /\ srRest = srIn

\* The backquotes of t, and the last of the offsets S.
Backquotes(t) == {j \in 0..(Len(t) - 1) : t[j + 1] = BQ}
Greatest(S) == CHOOSE j \in S : \A i \in S : i <= j

\* The offsets of the sentence punctuation in the search window of t: the
\* whole of t when its backquotes are even in number, else the text before
\* the last backquote.
WindowPunct(t) ==
    LET end == IF Cardinality(Backquotes(t)) % 2 = 0 THEN Len(t)
               ELSE Greatest(Backquotes(t))
    IN  {j \in 0..(end - 1) : t[j + 1] \in {".", "?", "!"}}

\* C25: when no fence rule applies, pending is not a list item and has no
\* newline at offset 10 or later, splitResponse returns the offset just after
\* the last '.', '?' or '!' of the search window when pending has at least 10
\* characters and the window holds one, and 0 otherwise.
C25_PunctuationRule ==
    /\ Ticked /\ NoFenceNoLateNewline(srIn)
    /\ ~IsBullet(srIn) /\ ~IsNumbered(srIn)
    => /\ srPc = "returned"
       /\ srOut = IF Len(srIn) < MinSend \/ WindowPunct(srIn) = {} THEN 0
                  ELSE Greatest(WindowPunct(srIn)) + 1
       /\ srChunk = SubSeq(srIn, 1, srOut)
       /\ srRest = SubSeq(srIn, srOut + 1, Len(srIn))

\* The text of t before its single fence marker, t itself without a marker.
UpToFence(t) ==
    IF FenceAt(t) = {} THEN t ELSE SubSeq(t, 1, Least(FenceAt(t)))

\* The offsets of the newlines of t, from offset MinSend on.
LateNewlines(t) == {j \in MinSend..(Len(t) - 1) : t[j + 1] = "\n"}

\* C26: with fewer than two fence markers, a newline at offset 10 or later in
\* the text before any single marker makes splitResponse return the offset
\* right after the last such newline, before the list-item, minimum-length
\* and punctuation rules are looked at; without such a newline the rule does
\* not act: the cut, if any, is not after a newline.
C26_NewlineRule ==
    Ticked /\ Count(srIn, Fence) < 2 =>
        IF LateNewlines(UpToFence(srIn)) # {}
        THEN /\ srPc = "returned"
             /\ srOut = Greatest(LateNewlines(UpToFence(srIn))) + 1
             /\ srChunk = SubSeq(srIn, 1, srOut)
             /\ srRest = SubSeq(srIn, srOut + 1, Len(srIn))
        ELSE srPc = "returned" /\ srOut > 0 => srIn[srOut] # "\n"

\* C26's case: a bulleted sentence followed by two newlines; the cut is after
\* the second newline although pending is a list item.
C26_Witness ==
    /\ srPc = "returned"
    /\ srIn = <<"-", " ">> \o Hello \o <<"\n", "\n">>
    /\ srOut = 14 /\ srRest = Empty

\* The flusher sends a chunk in this step and the send fails.
ChunkFails ==
    /\ Len(sent') = Len(sent) + 1
    /\ sent'[Len(sent')].kind = "chunk" /\ ~sent'[Len(sent')].ok

\* A send failed for the request in hand.
SomeSendFailed(ms) == \E k \in 1..Len(ms) : ~ms[k].ok

\* A chunk whose send fails is taken off pending and added to text, the
\* reply anchor stays, and the flusher goes on; and when the flusher returns
\* after a failed send, all the text of the stream has been sent once and
\* is recorded as the assistant turn.
C27Step ==
    /\ ChunkFails =>
         LET c == sent'[Len(sent')].content
         IN  /\ c # Empty /\ c \o pending' = pending /\ text' = text \o c
             /\ replyToID' = replyToID
             /\ flPc' = "run" /\ hpPc' = hpPc /\ ~crashed'
    /\ flPc = "run" /\ flPc' = "done" /\ SomeSendFailed(sent') =>
         /\ Emitted' = Concat(SubSeq(quota.stream, 1, produced))
         /\ mem'[chatReq.authorID] =
              Append(mem[chatReq.authorID], Message("assistant", Emitted'))

\* C27: a failed delivery of a chat chunk is not retried and does not abort
\* the stream: the chunk is removed from pending and counted as sent, the
\* later chunks and the forced flush are still sent, the reply anchor stays
\* at the last message produced, and the assistant turn is recorded.
C27_FailedChunkGoesOn ==
    /\ [][C27Step]_vars
    /\ [](hpPc # "idle" =>
            \A k \in 1..Len(sent) :
              sent[k].kind \in {"chunk", "final"} => sent[k].ref = Anchor(k))

\* C27's case: the first chunk failed, the second was delivered as a reply
\* to the user's message, the forced flush replies to the second, and the
\* assistant turn holds the three.
C27_Witness ==
    /\ flPc = "done" /\ Len(sent) = 3
    /\ sent[1].kind = "chunk" /\ ~sent[1].ok
    /\ sent[2].kind = "chunk" /\ sent[2].ok /\ sent[2].ref = chatReq.replyToID
    /\ sent[3].kind = "final" /\ sent[3].ref = sent[2].id
    /\ mem[chatReq.authorID][Len(mem[chatReq.authorID])] =
         Message("assistant", sent[1].content \o sent[2].content
                                \o sent[3].content)

\* C28: for every pending text splitResponse returns an offset i with
\* 0 <= i <= len(pending) and never panics, so a tick can neither end the
\* process nor slice pending out of range.
C28_NeverPanics ==
    Ticked =>
        /\ srPc = "returned"
        /\ srOut \in 0..Len(srIn)
        /\ srChunk \o srRest = srIn

\* C29: for every admitted image request the deferred acknowledgement of
\* onImage comes before any InteractionResponseEdit of handleImage for the
\* same interaction: every interaction that was edited had been acknowledged.
C29_AckBeforeEdit ==
    \A k \in 1..Len(edits) : edits[k].int \in acked

\* handlePrompt returns: the history of the request's author is the system
\* prompt and, for each request handled so far, the user turn and the
\* assistant turn, the last two being those of this request, with the text
\* of every word of its stream as the assistant turn.
C30Return ==
    hpPc = "wait" /\ hpPc' = "idle" =>
        LET h == mem'[chatReq.authorID]
            n == Len(h)
        IN  /\ n = 1 + 2 * Cardinality(chatFinished')
            /\ h[1] = Message("system", <<"s">>)
            /\ h[n - 1] = Message("user", chatReq.msg)
            /\ h[n] = Message("assistant",
                              Concat(SubSeq(quota.stream, 1, produced)))

\* The assistant turn is appended once the stream is closed and read to its
\* end.
C30Append ==
    flPc = "run" /\ flPc' = "done" => wordsClosed /\ words = <<>>

\* C30: when handlePrompt has finished a chat request, the generation having
\* succeeded or failed, the history has grown by the user turn followed by
\* one assistant turn (after the system prompt when it was empty), the
\* assistant turn is the text of every token received on the stream, and it
\* was appended only after the stream had closed.
C30_HistoryGrowth == [][C30Return /\ C30Append]_vars

====
